---- MODULE Spec2Model ----
(***************************************************************************)
(* DuTop: the traversal-and-aggregation engine of src/src/lib.rs.          *)
(*                                                                         *)
(* One process calls analyze_disk_usage up to MaxCalls times on one        *)
(* unchanged file system.  A call is modelled at the granularity of the    *)
(* `for entry in walker` loop: one step per item the filtered walkdir      *)
(* iterator delivers.  The file system, the configuration and top_n are    *)
(* inputs drawn in Init and in Call.                                       *)
(***************************************************************************)
EXTENDS Integers, Sequences, FiniteSets, TLC

(***************************************************************************)
(* Bounds of the model.                                                    *)
(***************************************************************************)
MaxBlocks == 2      \* 512-byte blocks allocated to the file inode "i2"
MaxTopN == 2        \* top_n ranges over 0..MaxTopN
MaxDepthCfg == 1    \* max_depth ranges over None and Some(0..MaxDepthCfg)
StackCap == 5       \* open directories the model lets the walker hold

MaxCalls == 2       \* calls of analyze_disk_usage in one process

VARIABLES
    tree,             \* the file system: root kind, directory listings, blocks
    pc,               \* "idle" (no call running) or "walking" (inside the loop)
    config,           \* AnalysisConfig of the running (or last) call
    top_n,            \* top_n of the running (or last) call
    walker,           \* the walkdir iterator: [start, stack]
    dir_sizes,        \* HashMap<PathBuf, DirectoryStats>
    total_files,
    total_dirs,
    seen_inodes,      \* HashSet<(dev, ino)>
    error_count,
    delivered,        \* history: the items the loop has received in this call
    pool_initialized, \* process-wide: rayon's global thread pool exists
    history           \* the calls that returned: arguments and result

vars == <<tree, pc, config, top_n, walker, dir_sizes, total_files, total_dirs,
          seen_inodes, error_count, delivered, pool_initialized, history>>

(***************************************************************************)
(* Option<T> is a sequence of length 0 (None) or 1 (Some(x)).              *)
(***************************************************************************)
None == <<>>
Some(x) == <<x>>

(***************************************************************************)
(* The file system.  Directory inodes d_root, d_a, d_b, d_s; file inodes   *)
(* i1, i2, i3.  A listing is the sequence of entries read_dir returns, in  *)
(* the order it returns them.  An entry's `ok` says whether stat of a file *)
(* path, or read_dir of a directory, succeeds.  A link's ino is its target *)
(* ("nowhere" when dangling).                                              *)
(***************************************************************************)
Root == <<"r">>

DirInos == {"d_root", "d_a", "d_b", "d_s"}
FileInos == {"i1", "i2", "i3"}

FileE(n, i) == [name |-> n, kind |-> "file", ino |-> i, ok |-> TRUE]
BadFileE(n, i) == [name |-> n, kind |-> "file", ino |-> i, ok |-> FALSE]
DirE(n, i) == [name |-> n, kind |-> "dir", ino |-> i, ok |-> TRUE]
LockedDirE(n, i) == [name |-> n, kind |-> "dir", ino |-> i, ok |-> FALSE]
LinkE(n, t) == [name |-> n, kind |-> "link", ino |-> t, ok |-> TRUE]

RootListings ==
    { <<>>,
      <<FileE("f", "i3")>>,
      <<DirE("a", "d_a"), DirE("b", "d_b")>>,
      <<DirE("b", "d_b"), DirE("a", "d_a")>>,
      <<DirE("a", "d_a"), FileE("f", "i3"), LockedDirE("b", "d_b")>> }

AListings ==
    { <<>>,
      <<FileE("f", "i1")>>,
      <<FileE("f", "i1"), DirE("s", "d_s")>>,
      <<LinkE("l", "d_root"), FileE("f", "i1")>>,
      <<LinkE("l", "d_b")>>,
      <<BadFileE("f", "i1"), LinkE("l", "i2")>>,
      <<LinkE("l", "nowhere")>> }

BListings ==
    { <<>>,
      <<FileE("g", "i1")>>,
      <<FileE("g", "i2")>> }

SListing == <<FileE("h", "i2")>>

HasDir(listing, i) == \E k \in 1..Len(listing) : listing[k].ino = i

MkTree(rl, al, bl, b2) ==
    [root_kind |-> "dir",
     dirs |-> [d \in DirInos |->
                 CASE d = "d_root" -> rl
                   [] d = "d_a" -> al
                   [] d = "d_b" -> bl
                   [] OTHER -> SListing],
     blocks |-> [i \in FileInos |->
                 CASE i = "i1" -> 1
                   [] i = "i2" -> b2
                   [] OTHER -> 0]]

\* the listing holds, or leads to, a path of the file inode i
UsesFile(listing, i) ==
    \E k \in 1..Len(listing) :
        \/ listing[k].ino = i
        \/ listing[k].ino = "d_s" /\ HasDir(SListing, i)

\* Listings of directories the root does not hold, or cannot read, are left
\* empty, and a file inode without a path keeps one block.
TreeParams ==
    { p \in RootListings \X AListings \X BListings \X (1..MaxBlocks) :
        /\ HasDir(p[1], "d_a") \/ p[2] = <<>>
        /\ HasDir(p[1], "d_b") \/ p[3] = <<>>
        /\ LockedDirE("b", "d_b") \in {p[1][k] : k \in 1..Len(p[1])} => p[3] = <<>>
        /\ UsesFile(p[2], "i2") \/ UsesFile(p[3], "i2") \/ p[4] = 1 }

Trees == { MkTree(p[1], p[2], p[3], p[4]) : p \in TreeParams }

\* A root path that is missing, or that names a regular file.
NoTree(kind) ==
    [root_kind |-> kind,
     dirs |-> [d \in DirInos |-> <<>>],
     blocks |-> [i \in FileInos |-> 0]]

(***************************************************************************)
(* AnalysisConfig.  An exclude pattern is a literal name, "*" (any name),  *)
(* or "[" (a pattern glob::Pattern::new rejects).                          *)
(***************************************************************************)
ExcludeLists == { <<>>, <<"a">>, <<"*">>, <<"[">>, <<"a", "[">> }

DepthOptions == {None} \cup {Some(d) : d \in 0..MaxDepthCfg}

DefaultConfig ==
    [max_depth |-> None, exclude_patterns |-> <<>>,
     follow_links |-> FALSE, num_threads |-> None]

Configs ==
    [max_depth : DepthOptions, exclude_patterns : ExcludeLists,
     follow_links : BOOLEAN, num_threads : {None}]
    \cup {[DefaultConfig EXCEPT !.num_threads = Some(2)]}

(***************************************************************************)
(* Pure helpers of lib.rs.                                                 *)
(***************************************************************************)
\* glob::Pattern::new: Err for a malformed pattern
PatternValid(p) == p # "["

\* build_exclusion_matcher: Ok(patterns), or Err naming the first bad pattern
build_exclusion_matcher(patterns) ==
    IF \A k \in 1..Len(patterns) : PatternValid(patterns[k])
    THEN [ok |-> TRUE, patterns |-> patterns]
    ELSE LET k == CHOOSE j \in 1..Len(patterns) :
                     /\ ~PatternValid(patterns[j])
                     /\ \A h \in 1..(j - 1) : PatternValid(patterns[h])
         IN [ok |-> FALSE, err |-> <<"Invalid glob pattern", patterns[k]>>]

\* glob::Pattern::matches for the patterns of the model
PatternMatches(p, name) == p = "*" \/ p = name

\* Path::file_name().and_then(to_str).unwrap_or("")
FileName(path) == IF Len(path) = 0 THEN "" ELSE path[Len(path)]

is_excluded(path, exclusions) ==
    IF Len(exclusions) = 0 THEN FALSE
    ELSE \E k \in 1..Len(exclusions) : PatternMatches(exclusions[k], FileName(path))

\* Path::strip_prefix: Some(relative) or None
StripPrefix(path, root) ==
    IF Len(path) >= Len(root) /\ SubSeq(path, 1, Len(root)) = root
    THEN Some(SubSeq(path, Len(root) + 1, Len(path)))
    ELSE None

\* (mutant) the bucket is the directory that holds the entry
find_parent_dir(path, root) ==
    IF Len(path) > Len(root) THEN SubSeq(path, 1, Len(path) - 1) ELSE root

find_immediate_subdir(path, root) ==
    LET rel == StripPrefix(path, root) IN
    IF rel # None
    THEN IF Len(rel[1]) > 0 THEN root \o <<rel[1][1]>> ELSE root
    ELSE path

get_inode_key(ino) == <<"dev0", ino>>

get_disk_usage(ino) == tree.blocks[ino] * 512

(***************************************************************************)
(* walkdir: WalkDir::new(path).follow_links(..).max_depth(..).into_iter()  *)
(* The iterator holds a flag for the not yet delivered root and the stack  *)
(* of open directories.  A frame is one open directory: its inode (what    *)
(* the loop check compares), the path it was reached by, the index of the  *)
(* next entry of its listing, and whether read_dir failed (the error is    *)
(* delivered once, in place of the entries).                               *)
(***************************************************************************)
NoDent == [path |-> <<>>, ftype |-> "none", depth |-> 0, ino |-> "nowhere",
           meta_ok |-> FALSE]

NoneItem == [tag |-> "none", dent |-> NoDent]
ErrItem == [tag |-> "err", dent |-> NoDent]
OkItem(d) == [tag |-> "ok", dent |-> d]

NewWalker == [start |-> TRUE, stack |-> <<>>]

\* read_dir of the directory inode fails when an entry naming it is locked
DirReadable(ino) ==
    \A d \in DirInos : \A k \in 1..Len(tree.dirs[d]) :
        (tree.dirs[d][k].kind = "dir" /\ tree.dirs[d][k].ino = ino)
            => tree.dirs[d][k].ok

Pop(w) == [w EXCEPT !.stack = SubSeq(w.stack, 1, Len(w.stack) - 1)]

Push(w, d) ==
    [w EXCEPT !.stack = Append(w.stack,
        [ino |-> d.ino, path |-> d.path, idx |-> 1, err |-> ~DirReadable(d.ino)])]

\* (mutant) no guard against links that point back to an ancestor
NoLoopCheck(w, target) == FALSE

\* IntoIter::check_loop: the target is one of the open ancestors
IsLoop(w, target) == \E k \in 1..Len(w.stack) : w.stack[k].ino = target

\* IntoIter::follow: stat through the link, then the loop check for a directory
Follow(dent, w) ==
    IF dent.ino = "nowhere" THEN [ok |-> FALSE, dent |-> dent]
    ELSE IF dent.ino \in DirInos
    THEN IF IsLoop(w, dent.ino) THEN [ok |-> FALSE, dent |-> dent]
         ELSE [ok |-> TRUE, dent |-> [dent EXCEPT !.ftype = "dir"]]
    ELSE [ok |-> TRUE, dent |-> [dent EXCEPT !.ftype = "file", !.meta_ok = TRUE]]

\* IntoIter::handle_entry
HandleEntry(dent, w, cfg) ==
    LET f == IF cfg.follow_links /\ dent.ftype = "symlink"
             THEN Follow(dent, w)
             ELSE [ok |-> TRUE, dent |-> dent]
    IN IF ~f.ok THEN [item |-> ErrItem, w |-> w]
       ELSE [item |-> OkItem(f.dent),
             w |-> IF f.dent.ftype = "dir" THEN Push(w, f.dent) ELSE w]

RootEntry == [path |-> Root, ftype |-> "dir", depth |-> 0, ino |-> "d_root",
              meta_ok |-> TRUE]

\* the DirEntry read_dir gives for entry e of the directory open in frame fr
EntryOf(fr, e, depth) ==
    [path |-> Append(fr.path, e.name),
     ftype |-> CASE e.kind = "file" -> "file"
                 [] e.kind = "dir" -> "dir"
                 [] OTHER -> "symlink",
     depth |-> depth,
     ino |-> e.ino,
     meta_ok |-> e.ok]

\* (mutant) the depth of the root's children is taken to be 0
DepthExceedsFromChildren(depth, max_depth) ==
    max_depth # None /\ depth - 1 > max_depth[1]

\* max_depth(config.max_depth.unwrap_or(usize::MAX)): depth > max_depth
DepthExceeds(depth, max_depth) == max_depth # None /\ depth > max_depth[1]

\* IntoIter::next on the iterator state w
RECURSIVE IntoIterNext(_, _)
IntoIterStep(w, cfg) ==
    IF w.start THEN HandleEntry(RootEntry, [w EXCEPT !.start = FALSE], cfg)
    ELSE IF Len(w.stack) = 0 THEN [item |-> NoneItem, w |-> w]
    ELSE LET depth == Len(w.stack)
             top == w.stack[depth]
             listing == tree.dirs[top.ino]
         IN IF DepthExceeds(depth, cfg.max_depth) THEN IntoIterNext(Pop(w), cfg)
            ELSE IF top.err
            THEN [item |-> ErrItem,
                  w |-> [w EXCEPT !.stack[depth].err = FALSE,
                                  !.stack[depth].idx = Len(listing) + 1]]
            ELSE IF top.idx > Len(listing) THEN IntoIterNext(Pop(w), cfg)
            ELSE HandleEntry(EntryOf(top, listing[top.idx], depth),
                             [w EXCEPT !.stack[depth].idx = top.idx + 1], cfg)

\* (the state is bound to its value first, so that it is evaluated once)
IntoIterNext(w0, cfg) == CHOOSE r \in {IntoIterStep(w, cfg) : w \in {w0}} : TRUE

\* (mutant) an excluded directory is skipped but still descended into
RECURSIVE FilterEntryNextNoSkip(_, _, _)
FilterEntryNextNoSkip(w, cfg, exclusions) ==
    CHOOSE x \in
        { IF r.item.tag = "ok" /\ is_excluded(r.item.dent.path, exclusions)
          THEN FilterEntryNextNoSkip(r.w, cfg, exclusions)
          ELSE r : r \in {IntoIterNext(w, cfg)} } : TRUE

\* FilterEntry::next with the predicate |e| !is_excluded(e, &exclusions),
\* r being what the inner iterator returned
RECURSIVE FilterEntryNext(_, _, _)
FilterEntryStep(r, cfg, exclusions) ==
    IF r.item.tag = "ok" /\ is_excluded(r.item.dent.path, exclusions)
    THEN FilterEntryNext(IF r.item.dent.ftype = "dir" THEN Pop(r.w) ELSE r.w,
                         cfg, exclusions)
    ELSE r

FilterEntryNext(w, cfg, exclusions) ==
    CHOOSE x \in {FilterEntryStep(r, cfg, exclusions) : r \in {IntoIterNext(w, cfg)}} : TRUE

(***************************************************************************)
(* process_entry on the aggregation state                                  *)
(*   agg = [dir_sizes, total_files, total_dirs, seen_inodes].              *)
(***************************************************************************)
DefaultStats == [size |-> 0, file_count |-> 0, dir_count |-> 0]

\* dir_sizes.entry(k).or_default(), then the update st of that entry
WithEntry(ds, k, st) == [x \in (DOMAIN ds) \cup {k} |-> IF x = k THEN st ELSE ds[x]]

EntryOrDefault(ds, k) == IF k \in DOMAIN ds THEN ds[k] ELSE DefaultStats

\* (mutant) the hard-link check is dropped: every path is counted
NeverSeen(inode_key, seen) == FALSE

\* !seen_inodes.insert(inode_key): the key was already in the set
AlreadySeen(inode_key, seen) == inode_key \in seen

\* (mutant) a path to an inode already counted still counts as a file
ProcessFileCountsLinks(entry, root_path, agg) ==
    LET inode_key == get_inode_key(entry.ino)
        size == IF AlreadySeen(inode_key, agg.seen_inodes)
                THEN 0 ELSE get_disk_usage(entry.ino)
        subdir == find_immediate_subdir(entry.path, root_path)
        stats == EntryOrDefault(agg.dir_sizes, subdir)
    IN [dir_sizes |-> WithEntry(agg.dir_sizes, subdir,
                         [stats EXCEPT !.size = @ + size,
                                       !.file_count = @ + 1]),
        total_files |-> agg.total_files + 1,
        total_dirs |-> agg.total_dirs,
        seen_inodes |-> agg.seen_inodes \cup {inode_key}]

\* the file branch once entry.metadata() has succeeded
ProcessFile(entry, root_path, agg) ==
    LET inode_key == get_inode_key(entry.ino) IN
    IF AlreadySeen(inode_key, agg.seen_inodes) THEN agg
    ELSE LET size == get_disk_usage(entry.ino)
             subdir == find_immediate_subdir(entry.path, root_path)
             stats == EntryOrDefault(agg.dir_sizes, subdir)
         IN [dir_sizes |-> WithEntry(agg.dir_sizes, subdir,
                              [stats EXCEPT !.size = @ + size,
                                            !.file_count = @ + 1]),
             total_files |-> agg.total_files + 1,
             total_dirs |-> agg.total_dirs,
             seen_inodes |-> agg.seen_inodes \cup {inode_key}]

\* the directory branch
ProcessDir(entry, root_path, agg) ==
    LET subdir == find_immediate_subdir(entry.path, root_path)
        stats == EntryOrDefault(agg.dir_sizes, subdir)
    IN [agg EXCEPT !.total_dirs = @ + 1,
                   !.dir_sizes = WithEntry(agg.dir_sizes, subdir,
                                    [stats EXCEPT !.dir_count = @ + 1])]

\* (mutant) the metadata error is noticed only after the file was counted
process_entry_counts_first(entry, root_path, agg) ==
    IF entry.ftype = "file"
    THEN [ok |-> entry.meta_ok, agg |-> ProcessFile(entry, root_path, agg)]
    ELSE IF entry.ftype = "dir" /\ entry.path # root_path
    THEN [ok |-> TRUE, agg |-> ProcessDir(entry, root_path, agg)]
    ELSE [ok |-> TRUE, agg |-> agg]

\* (mutant) the test path != root_path is missing: the root counts as well
process_entry_counts_root(entry, root_path, agg) ==
    IF entry.ftype = "file"
    THEN IF ~entry.meta_ok THEN [ok |-> FALSE, agg |-> agg]
         ELSE [ok |-> TRUE, agg |-> ProcessFile(entry, root_path, agg)]
    ELSE IF entry.ftype = "dir"
    THEN [ok |-> TRUE, agg |-> ProcessDir(entry, root_path, agg)]
    ELSE [ok |-> TRUE, agg |-> agg]

process_entry(entry, root_path, agg) ==
    IF entry.ftype = "file"
    THEN IF ~entry.meta_ok THEN [ok |-> FALSE, agg |-> agg]
         ELSE [ok |-> TRUE, agg |-> ProcessFile(entry, root_path, agg)]
    ELSE IF entry.ftype = "dir" /\ entry.path # root_path
    THEN [ok |-> TRUE, agg |-> ProcessDir(entry, root_path, agg)]
    ELSE [ok |-> TRUE, agg |-> agg]

(***************************************************************************)
(* The end of analyze_disk_usage: totals, ranking, truncation.             *)
(***************************************************************************)
RECURSIVE SumSizes(_, _)
\* dir_sizes.values().map(|s| s.size).sum() over the keys ks
SumSizes(ds, ks) ==
    IF ks = {} THEN 0
    ELSE LET k == CHOOSE x \in ks : TRUE
         IN ds[k].size + SumSizes(ds, ks \ {k})

total_size_of(ds) == SumSizes(ds, DOMAIN ds)

RECURSIVE Orders(_)
\* every order in which a HashMap may iterate over the keys S
Orders(S) ==
    IF S = {} THEN {<<>>}
    ELSE UNION { { <<x>> \o t : t \in Orders(S \ {x}) } : x \in S }

ToDirectoryEntry(ds, k) ==
    [path |-> k, size |-> ds[k].size,
     file_count |-> ds[k].file_count, dir_count |-> ds[k].dir_count]

\* the Vec collected from dir_sizes.into_par_iter(), in iteration order
Directories(ds, order) == [j \in 1..Len(order) |-> ToDirectoryEntry(ds, order[j])]

\* e goes behind every element that does not compare greater than it under
\* |a, b| b.size.cmp(&a.size): the sort is stable
InsertSorted(sorted, e) ==
    LET n == Cardinality({j \in 1..Len(sorted) : sorted[j].size >= e.size})
    IN SubSeq(sorted, 1, n) \o <<e>> \o SubSeq(sorted, n + 1, Len(sorted))

RECURSIVE SortBySizeDesc(_)
\* directories.sort_by(|a, b| b.size.cmp(&a.size))
SortBySizeDesc(v) ==
    IF Len(v) = 0 THEN <<>>
    ELSE CHOOSE r \in { InsertSorted(sorted, v[Len(v)]) :
                          sorted \in {SortBySizeDesc(SubSeq(v, 1, Len(v) - 1))} } : TRUE

\* (mutant) the truncation is forgotten
TakeAll(v, n) == v

\* directories.into_iter().take(top_n).collect()
Take(v, n) == SubSeq(v, 1, IF n < Len(v) THEN n ELSE Len(v))

RECURSIVE SumSeqSizes(_)
SumSeqSizes(v) == IF Len(v) = 0 THEN 0 ELSE v[1].size + SumSeqSizes(Tail(v))

\* (mutant) total_size is summed after the truncation, over the ranked list
OkResultTotalOfTop(ds, order, files, dirs, n) ==
    [ok |-> TRUE,
     root_path |-> Root,
     total_size |-> SumSeqSizes(Take(SortBySizeDesc(Directories(ds, order)), n)),
     total_files |-> files,
     total_dirs |-> dirs,
     top_directories |-> Take(SortBySizeDesc(Directories(ds, order)), n)]

OkResult(ds, order, files, dirs, n) ==
    [ok |-> TRUE,
     root_path |-> Root,
     total_size |-> total_size_of(ds),
     total_files |-> files,
     total_dirs |-> dirs,
     top_directories |-> Take(SortBySizeDesc(Directories(ds, order)), n)]

ErrResult(msg) == [ok |-> FALSE, err |-> msg]

\* what one returned call leaves behind: its arguments, its result, the
\* aggregation state its loop ended with and the items the loop received
Returned(cfg, n, res, ds, seen, errs, items) ==
    [config |-> cfg, top_n |-> n, result |-> res,
     buckets |-> ds, seen_inodes |-> seen, error_count |-> errs,
     delivered |-> items]

(***************************************************************************)
(* The state machine.                                                      *)
(***************************************************************************)
EmptyMap == [x \in {} |-> DefaultStats]

Init ==
    /\ tree \in Trees \cup {NoTree("missing"), NoTree("file")}
    /\ pc = "idle"
    /\ config = DefaultConfig
    /\ top_n = 0
    /\ walker = NewWalker
    /\ dir_sizes = EmptyMap
    /\ total_files = 0
    /\ total_dirs = 0
    /\ seen_inodes = {}
    /\ error_count = 0
    /\ delivered = <<>>
    /\ pool_initialized = FALSE
    /\ history = <<>>

\* The arguments of the next call: any configuration and top_n for the first
\* call; afterwards the caller repeats the previous call, either unchanged or
\* with an exclude list added to a configuration that had none.
CallArgs ==
    IF Len(history) = 0
    THEN Configs \X (0..MaxTopN)
    ELSE LET prev == history[Len(history)] IN
         { <<c, prev.top_n>> :
             c \in {prev.config} \cup
                   IF prev.config.exclude_patterns = <<>>
                   THEN {[prev.config EXCEPT !.exclude_patterns = x] :
                            x \in ExcludeLists}
                   ELSE {} }

\* (mutant) the patterns are compiled when first used, not before the walk
PreconditionWithoutPatterns(cfg) ==
    IF tree.root_kind = "missing" THEN Some(<<"Path does not exist", Root>>)
    ELSE IF tree.root_kind # "dir" THEN Some(<<"Path is not a directory", Root>>)
    ELSE IF cfg.num_threads # None /\ pool_initialized
    THEN Some(<<"Failed to configure thread pool">>)
    ELSE None

\* The precondition checks of analyze_disk_usage, in order: None when all
\* pass, or Some(error message).
Precondition(cfg) ==
    IF tree.root_kind = "missing" THEN Some(<<"Path does not exist", Root>>)
    ELSE IF tree.root_kind # "dir" THEN Some(<<"Path is not a directory", Root>>)
    ELSE IF cfg.num_threads # None /\ pool_initialized
    THEN Some(<<"Failed to configure thread pool">>)
    ELSE LET m == build_exclusion_matcher(cfg.exclude_patterns) IN
         IF ~m.ok THEN Some(m.err) ELSE None

\* analyze_disk_usage(Root, cfg, n) up to the first iteration of the loop
CallWith(cfg, n) ==
    LET pre == Precondition(cfg) IN
    /\ pc = "idle"
    /\ Len(history) < MaxCalls
    /\ config' = cfg
    /\ top_n' = n
    /\ pool_initialized' =
         (pool_initialized \/ (tree.root_kind = "dir" /\ cfg.num_threads # None))
    /\ walker' = NewWalker
    /\ dir_sizes' = EmptyMap
    /\ total_files' = 0
    /\ total_dirs' = 0
    /\ seen_inodes' = {}
    /\ error_count' = 0
    /\ delivered' = <<>>
    /\ IF pre # None
       THEN /\ pc' = "idle"
            /\ history' = Append(history,
                  Returned(cfg, n, ErrResult(pre[1]), EmptyMap, {}, 0, <<>>))
       ELSE /\ pc' = "walking"
            /\ history' = history
    /\ UNCHANGED tree

Call == \E a \in CallArgs : CallWith(a[1], a[2])

\* the item the next iteration of `for entry in walker...filter_entry(..)` gets
NextItem == FilterEntryNext(walker, config, config.exclude_patterns)

Agg == [dir_sizes |-> dir_sizes, total_files |-> total_files,
        total_dirs |-> total_dirs, seen_inodes |-> seen_inodes]

\* one iteration with Ok(entry): process_entry, counting its error
WalkOk ==
    /\ pc = "walking"
    /\ \E nx \in {NextItem} :
         /\ nx.item.tag = "ok"
         /\ Len(nx.w.stack) <= StackCap
         /\ \E r \in {process_entry(nx.item.dent, Root, Agg)} :
              /\ dir_sizes' = r.agg.dir_sizes
              /\ total_files' = r.agg.total_files
              /\ total_dirs' = r.agg.total_dirs
              /\ seen_inodes' = r.agg.seen_inodes
              /\ error_count' = IF r.ok THEN error_count ELSE error_count + 1
         /\ walker' = nx.w
         /\ delivered' = Append(delivered, nx.item)
    /\ UNCHANGED <<tree, pc, config, top_n, pool_initialized, history>>

\* one iteration with Err(e)
WalkErr ==
    /\ pc = "walking"
    /\ \E nx \in {NextItem} :
         /\ nx.item.tag = "err"
         /\ walker' = nx.w
         /\ delivered' = Append(delivered, nx.item)
    /\ error_count' = error_count + 1
    /\ UNCHANGED <<tree, pc, config, top_n, dir_sizes, total_files, total_dirs,
                   seen_inodes, pool_initialized, history>>

\* the iterator is exhausted: totals, ranking, Ok(AnalysisResult)
Finish ==
    /\ pc = "walking"
    /\ \E nx \in {NextItem} :
         /\ nx.item.tag = "none"
         /\ walker' = nx.w
    /\ \E order \in Orders(DOMAIN dir_sizes) :
         history' = Append(history,
            Returned(config, top_n,
                     OkResult(dir_sizes, order, total_files, total_dirs, top_n),
                     dir_sizes, seen_inodes, error_count, delivered))
    /\ pc' = "idle"
    /\ pool_initialized' = TRUE
    /\ UNCHANGED <<tree, config, top_n, dir_sizes, total_files, total_dirs,
                   seen_inodes, error_count, delivered>>

Next == Call \/ WalkOk \/ WalkErr \/ Finish

Spec == Init /\ [][Next]_vars

(***************************************************************************)
(* The specification for termination.  A call that entered the loop keeps  *)
(* running: the loop is sequential code that nothing suspends, so the loop *)
(* is weakly fair; the caller need not call again.  What the walk does is  *)
(* independent of top_n and of the files' sizes, which are fixed here.     *)
(***************************************************************************)
Loop == WalkOk \/ WalkErr \/ Finish

InitFair == Init /\ tree.blocks["i2"] = 1

CallFair == \E a \in {x \in CallArgs : x[2] = MaxTopN} : CallWith(a[1], a[2])

NextFair == CallFair \/ WalkOk \/ WalkErr \/ Finish

FairSpec == InitFair /\ [][NextFair]_vars /\ WF_vars(Loop)

(***************************************************************************)
(* Vocabulary of the properties.                                           *)
(***************************************************************************)
Calls == 1..Len(history)

\* the calls that returned Ok(AnalysisResult)
OkCalls == {i \in Calls : history[i].result.ok}

RECURSIVE SumField(_, _, _)
\* the sum of field fld ("size", "file_count", "dir_count") over the buckets ks
SumField(ds, ks, fld) ==
    IF ks = {} THEN 0
    ELSE LET k == CHOOSE x \in ks : TRUE
         IN ds[k][fld] + SumField(ds, ks \ {k}, fld)

\* the paths of the ranked list
TopPaths(res) == {res.top_directories[j].path : j \in 1..Len(res.top_directories)}

(***************************************************************************)
(* C1: the totals of a result are sums over all buckets of the walk, not   *)
(* over the buckets kept in top_directories: total_size is the sum of all  *)
(* bucket sizes, total_files the sum of all bucket file counts, for every  *)
(* top_n.                                                                  *)
(***************************************************************************)
C1_TotalsOverAllBuckets ==
    \A i \in OkCalls :
        LET h == history[i] IN
        /\ h.result.total_size = SumField(h.buckets, DOMAIN h.buckets, "size")
        /\ h.result.total_files = SumField(h.buckets, DOMAIN h.buckets, "file_count")

\* a result whose ranked list was truncated and misses part of the total
C1_Witness ==
    \E i \in OkCalls :
        LET h == history[i] IN
        /\ h.top_n < Cardinality(DOMAIN h.buckets)
        /\ h.result.total_size > SumSeqSizes(h.result.top_directories)
        /\ h.result.total_files > 1

(***************************************************************************)
(* Files the loop received.                                                *)
(***************************************************************************)
\* the positions of the Ok items that are regular files
FileItems(items) ==
    {k \in 1..Len(items) : items[k].tag = "ok" /\ items[k].dent.ftype = "file"}

\* the identity keys of all regular-file entries the walker delivered
VisitedKeys(items) == {get_inode_key(items[k].dent.ino) : k \in FileItems(items)}

\* the identity keys of those whose metadata could be read through some path
ReadKeys(items) ==
    {get_inode_key(items[k].dent.ino) :
        k \in {j \in FileItems(items) : items[j].dent.meta_ok}}

RECURSIVE SumUsage(_)
\* the disk usage of the physical files with the keys ks, each counted once
SumUsage(ks) ==
    IF ks = {} THEN 0
    ELSE LET k == CHOOSE x \in ks : TRUE
         IN tree.blocks[k[2]] * 512 + SumUsage(ks \ {k})

\* files, seen and the buckets ds count exactly the physical files keys
CountedOnce(keys, ds, files, seen) ==
    /\ files = Cardinality(keys)
    /\ seen = keys
    /\ SumField(ds, DOMAIN ds, "file_count") = Cardinality(keys)
    /\ SumField(ds, DOMAIN ds, "size") = SumUsage(keys)

(***************************************************************************)
(* C2, as claimed: after the walk every distinct physical file among the   *)
(* visited regular-file entries is counted exactly once: total_files is    *)
(* the number of distinct identity keys visited, total_size the sum of     *)
(* their disk usage, and the buckets hold each file once.                  *)
(***************************************************************************)
C2_AsClaimed ==
    \A i \in OkCalls :
        LET h == history[i] IN
        /\ CountedOnce(VisitedKeys(h.delivered), h.buckets,
                       h.result.total_files, h.seen_inodes)
        /\ h.result.total_size = SumUsage(VisitedKeys(h.delivered))

(***************************************************************************)
(* C2, amended: every distinct physical file among the visited regular-    *)
(* file entries whose metadata could be read through at least one of its   *)
(* paths is counted exactly once, however many hard-link paths reach it;   *)
(* a file whose metadata cannot be read through any path is not counted.   *)
(* It holds after every iteration of the loop and of every result.         *)
(***************************************************************************)
C2_ReadableFilesCountedOnce ==
    /\ CountedOnce(ReadKeys(delivered), dir_sizes, total_files, seen_inodes)
    /\ \A i \in OkCalls :
        LET h == history[i] IN
        /\ CountedOnce(ReadKeys(h.delivered), h.buckets,
                       h.result.total_files, h.seen_inodes)
        /\ h.result.total_size = SumUsage(ReadKeys(h.delivered))

\* a result of a walk that met one physical file through two readable paths
C2_Witness ==
    \E i \in OkCalls :
        LET h == history[i] IN
        /\ \E j, k \in FileItems(h.delivered) :
              /\ j < k
              /\ h.delivered[j].dent.ino = h.delivered[k].dent.ino
              /\ h.delivered[j].dent.meta_ok /\ h.delivered[k].dent.meta_ok
        /\ h.result.total_files = Cardinality(ReadKeys(h.delivered))
        /\ h.result.total_size > 0

(***************************************************************************)
(* C3, as claimed: for an entry path beneath the root the walker delivers, *)
(* the bucket key is the root itself when the entry is a file directly     *)
(* inside the root, and otherwise the root joined with the first path      *)
(* component beneath the root.                                             *)
(***************************************************************************)
OkItems(items) == {k \in 1..Len(items) : items[k].tag = "ok"}

\* the root joined with the first component of path beneath it
FirstBeneath(path, root) ==
    IF Len(path) > Len(root) THEN SubSeq(path, 1, Len(root) + 1) ELSE root

C3_AsClaimed ==
    \A k \in OkItems(delivered) :
        LET d == delivered[k].dent IN
        d.path # Root =>
            IF d.ftype = "file" /\ Len(d.path) = Len(Root) + 1
            THEN find_immediate_subdir(d.path, Root) = Root
            ELSE find_immediate_subdir(d.path, Root) = FirstBeneath(d.path, Root)

(***************************************************************************)
(* C3, amended: for every entry path beneath the root the walker delivers, *)
(* the bucket key is the root joined with the first path component beneath *)
(* the root, however deep the path is; for a file directly inside the root *)
(* that is the file's own path.  The key is the root itself only for the   *)
(* root path, so no bucket is keyed by the root.                           *)
(***************************************************************************)
C3_BucketKeyIsFirstComponent ==
    /\ \A k \in OkItems(delivered) :
          LET d == delivered[k].dent IN
          find_immediate_subdir(d.path, Root) =
              IF d.path = Root THEN Root ELSE FirstBeneath(d.path, Root)
    /\ \A key \in DOMAIN dir_sizes :
          /\ Len(key) = Len(Root) + 1
          /\ \E k \in OkItems(delivered) :
                FirstBeneath(delivered[k].dent.path, Root) = key

\* a walk that delivered a file directly inside the root, which has its own
\* bucket, and a file three levels beneath the root
C3_Witness ==
    /\ \E k \in FileItems(delivered) :
          /\ delivered[k].dent.depth = 1
          /\ delivered[k].dent.path \in DOMAIN dir_sizes
    /\ \E k \in FileItems(delivered) :
          /\ delivered[k].dent.depth = 3
          /\ find_immediate_subdir(delivered[k].dent.path, Root) \in DOMAIN dir_sizes

(***************************************************************************)
(* C4, as claimed: the length of top_directories is at most                *)
(* min(top_n, number of buckets into which at least one file was counted). *)
(***************************************************************************)
Min(x, y) == IF x < y THEN x ELSE y

NonEmptyBuckets(ds) == {k \in DOMAIN ds : ds[k].file_count > 0}

C4_AsClaimed ==
    \A i \in OkCalls :
        LET h == history[i] IN
        Len(h.result.top_directories) <=
            Min(h.top_n, Cardinality(NonEmptyBuckets(h.buckets)))

(***************************************************************************)
(* C4, amended: the length of top_directories is min(top_n, number of      *)
(* buckets), a bucket existing when at least one file or one directory     *)
(* was counted into it (a bucket of an empty directory has file count 0    *)
(* and is listed); a root with no entries yields total_size = 0,           *)
(* total_files = 0 and an empty top_directories.                           *)
(***************************************************************************)
C4_TopLengthIsMinOfBuckets ==
    \A i \in OkCalls :
        LET h == history[i] IN
        /\ Len(h.result.top_directories) =
              Min(h.top_n, Cardinality(DOMAIN h.buckets))
        /\ TopPaths(h.result) \subseteq DOMAIN h.buckets
        /\ \A k \in DOMAIN h.buckets :
              h.buckets[k].file_count + h.buckets[k].dir_count >= 1
        /\ tree.dirs["d_root"] = <<>> =>
              /\ h.result.total_size = 0
              /\ h.result.total_files = 0
              /\ h.result.total_dirs = 0
              /\ h.result.top_directories = <<>>

\* a ranked list that holds a bucket without any file, next to a result for
\* a root without entries
C4_Witness ==
    \E i \in OkCalls :
        LET h == history[i] IN
        /\ \E j \in 1..Len(h.result.top_directories) :
              h.result.top_directories[j].file_count = 0
        /\ Len(h.result.top_directories) = h.top_n
        /\ Cardinality(DOMAIN h.buckets) > h.top_n

\* a result for a root directory without entries
C4_WitnessEmptyRoot ==
    \E i \in OkCalls :
        /\ tree.dirs["d_root"] = <<>>
        /\ history[i].result.top_directories = <<>>
        /\ history[i].top_n > 0

(***************************************************************************)
(* C5, as claimed: top_directories is the first top_n elements of the      *)
(* complete bucket set sorted descending by size, and the order of         *)
(* equal-size buckets does not depend on the iteration order of the bucket *)
(* map: every iteration order gives the ranked list that was returned.     *)
(***************************************************************************)
C5_AsClaimed ==
    \A i \in OkCalls :
        LET h == history[i] IN
        \A order \in Orders(DOMAIN h.buckets) :
            h.result.top_directories =
                Take(SortBySizeDesc(Directories(h.buckets, order)), h.top_n)

\* What does hold of the ranked list: sizes never increase along it, and no
\* bucket left out of it is larger than a bucket in it.
C5_RankedBySize ==
    \A i \in OkCalls :
        LET h == history[i]
            top == h.result.top_directories
        IN /\ \A j \in 1..(Len(top) - 1) : top[j].size >= top[j + 1].size
           /\ \A j \in 1..Len(top) : top[j] = ToDirectoryEntry(h.buckets, top[j].path)
           /\ \A k \in (DOMAIN h.buckets) \ TopPaths(h.result) :
                 \A j \in 1..Len(top) : h.buckets[k].size <= top[j].size

(***************************************************************************)
(* C6, as claimed (idempotence): two calls in one process on the unchanged *)
(* tree with the identical configuration (one with num_threads set         *)
(* included) and the same top_n return identical results.                  *)
(***************************************************************************)
C6_AsClaimed ==
    \A i, j \in Calls :
        (/\ i < j
         /\ history[i].config = history[j].config
         /\ history[i].top_n = history[j].top_n)
            => history[i].result = history[j].result

\* the same, for configurations that leave num_threads unset
C6_AsClaimedWithoutThreads ==
    \A i, j \in Calls :
        (/\ i < j
         /\ history[i].config = history[j].config
         /\ history[i].config.num_threads = None
         /\ history[i].top_n = history[j].top_n)
            => history[i].result = history[j].result

(***************************************************************************)
(* Exclusion: a call without exclude patterns followed by the same call    *)
(* with the one pattern p, which matches the name of the directory         *)
(* directly under the root whose bucket is key.                            *)
(***************************************************************************)
IsBeneath(path, key) == Len(path) >= Len(key) /\ SubSeq(path, 1, Len(key)) = key

\* calls i and j = i + 1 differ by the added pattern, and both returned Ok
ExclusionAdded(i, j) ==
    /\ i \in OkCalls /\ j \in OkCalls /\ j = i + 1
    /\ history[i].config.exclude_patterns = <<>>
    /\ Len(history[j].config.exclude_patterns) = 1
    /\ history[j].config =
          [history[i].config EXCEPT
              !.exclude_patterns = history[j].config.exclude_patterns]
    /\ history[i].top_n = history[j].top_n

\* the buckets of directories directly under the root whose name p matches
ExcludedBuckets(p) ==
    {Append(Root, tree.dirs["d_root"][k].name) :
        k \in {x \in 1..Len(tree.dirs["d_root"]) :
                  /\ tree.dirs["d_root"][x].kind = "dir"
                  /\ PatternMatches(p, tree.dirs["d_root"][x].name)}}

\* the keys of the readable files that items delivers beneath key / elsewhere
KeysBeneath(items, key) ==
    {get_inode_key(items[k].dent.ino) :
        k \in {x \in FileItems(items) :
                  items[x].dent.meta_ok /\ IsBeneath(items[x].dent.path, key)}}

KeysOutside(items, key) ==
    {get_inode_key(items[k].dent.ino) :
        k \in {x \in FileItems(items) :
                  items[x].dent.meta_ok /\ ~IsBeneath(items[x].dent.path, key)}}

\* p matches no name the walk without the exclusion met outside key
MatchesOnlyBeneath(items, p, key) ==
    \A k \in OkItems(items) :
        PatternMatches(p, FileName(items[k].dent.path))
            => IsBeneath(items[k].dent.path, key)

(***************************************************************************)
(* C7, as claimed: adding an exclude pattern that matches a directory's    *)
(* name (and not the root's) removes that directory's bucket and leaves    *)
(* the size, file count and dir count of every sibling bucket the pattern  *)
(* does not match exactly as they are without the exclusion.               *)
(***************************************************************************)
C7_AsClaimed ==
    \A i, j \in Calls :
        ExclusionAdded(i, j) =>
            LET h1 == history[i]
                h2 == history[j]
                p == h2.config.exclude_patterns[1]
            IN \A key \in ExcludedBuckets(p) :
                  ~PatternMatches(p, FileName(Root)) =>
                     /\ key \notin DOMAIN h2.buckets
                     /\ \A k \in (DOMAIN h1.buckets) \ ExcludedBuckets(p) :
                           /\ k \in DOMAIN h2.buckets
                           /\ h2.buckets[k] = h1.buckets[k]

(***************************************************************************)
(* C7, amended: adding an exclude pattern that matches the name of a       *)
(* directory directly under the root, and no name met outside that         *)
(* directory, removes the directory and everything beneath it from the     *)
(* delivered entries, the bucket set and total_dirs, and leaves the dir    *)
(* count of every sibling bucket as it is.  Size and file count of the     *)
(* sibling buckets are left exactly as they are when no file counted       *)
(* beneath the excluded directory has another readable path outside it     *)
(* (then total_files and total_size drop by the excluded bucket's file     *)
(* count and size); otherwise they can only grow, because a file first met *)
(* beneath the excluded directory is then counted through its other path.  *)
(***************************************************************************)
C7_ExclusionFrame ==
    \A i, j \in Calls :
        ExclusionAdded(i, j) =>
            LET h1 == history[i]
                h2 == history[j]
                p == h2.config.exclude_patterns[1]
            IN \A key \in ExcludedBuckets(p) :
                  MatchesOnlyBeneath(h1.delivered, p, key) =>
                     LET gone == EntryOrDefault(h1.buckets, key) IN
                     /\ key \notin DOMAIN h2.buckets
                     /\ \A k \in OkItems(h2.delivered) :
                           ~IsBeneath(h2.delivered[k].dent.path, key)
                     /\ h2.result.total_dirs = h1.result.total_dirs - gone.dir_count
                     /\ \A k \in (DOMAIN h1.buckets) \ {key} :
                           /\ k \in DOMAIN h2.buckets
                           /\ h2.buckets[k].dir_count = h1.buckets[k].dir_count
                           /\ h2.buckets[k].size >= h1.buckets[k].size
                           /\ h2.buckets[k].file_count >= h1.buckets[k].file_count
                     /\ (KeysBeneath(h1.delivered, key)
                            \cap KeysOutside(h1.delivered, key) = {}) =>
                           /\ DOMAIN h2.buckets = (DOMAIN h1.buckets) \ {key}
                           /\ \A k \in DOMAIN h2.buckets :
                                 h2.buckets[k] = h1.buckets[k]
                           /\ h2.result.total_files =
                                 h1.result.total_files - gone.file_count
                           /\ h2.result.total_size =
                                 h1.result.total_size - gone.size

\* the exclusion removed a bucket that held a file, and a sibling bucket now
\* counts the file that is hard-linked into both directories
C7_Witness ==
    \E i, j \in Calls :
        /\ ExclusionAdded(i, j)
        /\ LET h1 == history[i]
               h2 == history[j]
               p == h2.config.exclude_patterns[1]
           IN \E key \in ExcludedBuckets(p) :
                 /\ MatchesOnlyBeneath(h1.delivered, p, key)
                 /\ key \in DOMAIN h1.buckets
                 /\ h1.buckets[key].file_count > 0
                 /\ key \notin DOMAIN h2.buckets
                 /\ \E k \in DOMAIN h2.buckets :
                       /\ k \in DOMAIN h1.buckets
                       /\ h2.buckets[k].file_count > h1.buckets[k].file_count

\* the exclusion removed a bucket that held a file, and no file is shared
C7_WitnessNoSharedFile ==
    \E i, j \in Calls :
        /\ ExclusionAdded(i, j)
        /\ LET h1 == history[i]
               h2 == history[j]
               p == h2.config.exclude_patterns[1]
           IN \E key \in ExcludedBuckets(p) :
                 /\ MatchesOnlyBeneath(h1.delivered, p, key)
                 /\ key \in DOMAIN h1.buckets
                 /\ h1.buckets[key].file_count > 0
                 /\ KeysBeneath(h1.delivered, key)
                       \cap KeysOutside(h1.delivered, key) = {}
                 /\ Cardinality(DOMAIN h2.buckets) > 0
                 /\ h2.result.total_files > 0

(***************************************************************************)
(* Depth limit.                                                            *)
(***************************************************************************)
Range(f) == {f[x] : x \in DOMAIN f}

\* the entries directly under the root that configuration cfg does not exclude
RootLevel(cfg) ==
    IF is_excluded(Root, cfg.exclude_patterns) THEN {}
    ELSE {e \in Range(tree.dirs["d_root"]) :
             ~is_excluded(Append(Root, e.name), cfg.exclude_patterns)}

\* the identity keys of the readable regular files directly under the root
RootLevelFileKeys(cfg) ==
    {get_inode_key(e.ino) : e \in {x \in RootLevel(cfg) : x.kind = "file" /\ x.ok}}

RootLevelDirs(cfg) == {e \in RootLevel(cfg) : e.kind = "dir"}

(***************************************************************************)
(* C8, as claimed: with max_depth = Some(0) the countable entries are the  *)
(* regular files directly under the root: total_files is the number of     *)
(* distinct files directly in root, total_dirs = 0, and every bucket is    *)
(* one of a root-level file.                                               *)
(***************************************************************************)
C8_AsClaimed ==
    \A i \in OkCalls :
        LET h == history[i] IN
        h.config.max_depth = Some(0) =>
            /\ h.result.total_files = Cardinality(RootLevelFileKeys(h.config))
            /\ h.result.total_dirs = 0
            /\ \A k \in DOMAIN h.buckets :
                  \E e \in RootLevel(h.config) :
                      e.kind = "file" /\ k = Append(Root, e.name)

(***************************************************************************)
(* C8, amended: with max_depth = Some(d) the walker delivers no entry      *)
(* deeper than d, the root being at depth 0 and its entries at depth 1.    *)
(* With Some(0) only the root is delivered and nothing is countable:       *)
(* total_files = 0, total_size = 0, total_dirs = 0, no bucket exists and   *)
(* top_directories is empty.  The files directly under the root are the    *)
(* countable files with Some(1): total_files is the number of distinct     *)
(* readable files directly in root, total_dirs the number of directories   *)
(* directly in root, and every bucket is one of a root-level entry.        *)
(***************************************************************************)
C8_DepthLimit ==
    \A i \in OkCalls :
        LET h == history[i] IN
        h.config.max_depth # None =>
            /\ \A k \in OkItems(h.delivered) :
                  /\ h.delivered[k].dent.depth <= h.config.max_depth[1]
                  /\ Len(h.delivered[k].dent.path) =
                        Len(Root) + h.delivered[k].dent.depth
            /\ h.config.max_depth = Some(0) =>
                  /\ h.result.total_files = 0
                  /\ h.result.total_size = 0
                  /\ h.result.total_dirs = 0
                  /\ h.buckets = EmptyMap
                  /\ h.result.top_directories = <<>>
            /\ h.config.max_depth = Some(1) =>
                  /\ h.result.total_files = Cardinality(RootLevelFileKeys(h.config))
                  /\ h.result.total_dirs = Cardinality(RootLevelDirs(h.config))
                  /\ DOMAIN h.buckets \subseteq
                        {Append(Root, e.name) : e \in RootLevel(h.config)}

\* a call with max_depth = Some(0) on a root that holds a regular file
C8_Witness ==
    \E i \in OkCalls :
        LET h == history[i] IN
        /\ h.config.max_depth = Some(0)
        /\ RootLevelFileKeys(h.config) # {}
        /\ h.result.total_files = 0
        /\ Len(h.delivered) = 1

(***************************************************************************)
(* Per-entry errors.                                                       *)
(***************************************************************************)
\* the item is an Err of the walker, or a file whose metadata() fails
Failing(item) ==
    \/ item.tag = "err"
    \/ item.tag = "ok" /\ item.dent.ftype = "file" /\ ~item.dent.meta_ok

FailingItems(items) == {k \in 1..Len(items) : Failing(items[k])}

\* the next iteration of the loop meets a per-entry error
NextFails == pc = "walking" /\ Failing(NextItem.item)

(***************************************************************************)
(* C9: a per-entry error (an Err item from the walker, or a metadata       *)
(* failure inside process_entry) never aborts the walk: the failing entry  *)
(* changes no bucket, no total and no identity-set member, the error       *)
(* counter grows by exactly one, the loop goes on from the walker's next   *)
(* position, and the call returns Ok: only a precondition error, raised    *)
(* before any entry is delivered, makes a call return Err.                 *)
(***************************************************************************)
C9_ErrorsAreSkipped ==
    /\ [][NextFails =>
            /\ dir_sizes' = dir_sizes
            /\ total_files' = total_files
            /\ total_dirs' = total_dirs
            /\ seen_inodes' = seen_inodes
            /\ error_count' = error_count + 1
            /\ pc' = "walking"
            /\ walker' = NextItem.w
            /\ history' = history]_vars
    /\ [](/\ error_count = Cardinality(FailingItems(delivered))
          /\ \A i \in Calls :
                /\ history[i].error_count =
                      Cardinality(FailingItems(history[i].delivered))
                /\ history[i].result.ok \/ history[i].delivered = <<>>)

\* a returned walk that met both kinds of error and counted a file afterwards
C9_Witness ==
    \E i \in OkCalls :
        LET h == history[i] IN
        /\ \E j \in FailingItems(h.delivered) : h.delivered[j].tag = "err"
        /\ \E j \in FailingItems(h.delivered) :
              /\ h.delivered[j].tag = "ok"
              /\ \E k \in FileItems(h.delivered) :
                    /\ k > j
                    /\ h.delivered[k].dent.meta_ok
                    /\ get_inode_key(h.delivered[k].dent.ino) \in h.seen_inodes
        /\ h.error_count >= 2
        /\ h.result.total_files > 0

(***************************************************************************)
(* Symbolic links.                                                         *)
(***************************************************************************)
RECURSIVE LinkPathsIn(_, _)
\* the paths of the symbolic links in the directory d, reached by path, and
\* in the directories beneath it
LinkPathsIn(d, path) ==
    UNION { IF e.kind = "link" THEN {Append(path, e.name)}
            ELSE IF e.kind = "dir" THEN LinkPathsIn(e.ino, Append(path, e.name))
            ELSE {} : e \in Range(tree.dirs[d]) }

LinkPaths == LinkPathsIn("d_root", Root)

\* nothing beneath a symbolic link is open or was delivered, and every link
\* was delivered as a link
NoLinkDescended ==
    /\ \A k \in 1..Len(walker.stack) :
          \A lp \in LinkPaths : ~IsBeneath(walker.stack[k].path, lp)
    /\ \A k \in OkItems(delivered) :
          \A lp \in LinkPaths :
              IF delivered[k].dent.path = lp
              THEN delivered[k].dent.ftype = "symlink"
              ELSE ~IsBeneath(delivered[k].dent.path, lp)

(***************************************************************************)
(* C10: a call that entered the loop returns, for follow_links = true      *)
(* also on a tree where a link points back to one of its own ancestor      *)
(* directories; with follow_links = false no symbolic link is descended    *)
(* into (and the walk terminates as well).                                 *)
(***************************************************************************)
C10_WalkTerminates ==
    /\ (pc = "walking") ~> (pc = "idle")
    /\ []((pc = "walking" /\ ~config.follow_links) => NoLinkDescended)

\* a call that followed links returned from a tree in which a/l points back
\* to the root, having met the loop as one error
C10_Witness ==
    \E i \in OkCalls :
        LET h == history[i] IN
        /\ h.config.follow_links
        /\ \E e \in Range(tree.dirs["d_a"]) : e.kind = "link" /\ e.ino = "d_root"
        /\ \E k \in OkItems(h.delivered) : h.delivered[k].dent.path = <<"r", "a", "f">>
        /\ h.error_count = 1

(***************************************************************************)
(* Discovery order.  The loop body is replayed over the items of a         *)
(* returned call taken in another order: any order in which every entry    *)
(* still comes after the directories it lies beneath, which is what        *)
(* another listing order of the directories (or walkers working on         *)
(* different subtrees) can produce.                                        *)
(***************************************************************************)
StartAgg == [dir_sizes |-> EmptyMap, total_files |-> 0, total_dirs |-> 0,
             seen_inodes |-> {}]

RECURSIVE ReplayLoop(_, _, _)
\* the aggregation state after the loop body ran on items[order[1..k]]
ReplayLoop(items, order, k) ==
    IF k = 0 THEN StartAgg
    ELSE LET prev == ReplayLoop(items, order, k - 1)
             it == items[order[k]]
         IN IF it.tag = "ok" THEN process_entry(it.dent, Root, prev).agg ELSE prev

\* entry x lies strictly beneath the directory entry y
StrictlyBeneath(x, y) ==
    /\ x.tag = "ok" /\ y.tag = "ok"
    /\ Len(x.dent.path) > Len(y.dent.path)
    /\ IsBeneath(x.dent.path, y.dent.path)

\* the orders of the positions of items that keep parents before children
DeliveryOrders(items) ==
    {o \in Orders(1..Len(items)) :
        \A i, j \in 1..Len(items) :
            i < j => ~StrictlyBeneath(items[o[i]], items[o[j]])}

\* size and file count of every bucket
SizesAndFiles(ds) ==
    [k \in DOMAIN ds |-> [size |-> ds[k].size, file_count |-> ds[k].file_count]]

(***************************************************************************)
(* C11, as claimed: the observable output (total_size, total_files,        *)
(* total_dirs, and every bucket of the ranking with its size and file      *)
(* count) is the same for every order in which the same set of entries is  *)
(* delivered, also when one physical file is hard-linked into two buckets. *)
(***************************************************************************)
C11_AsClaimed ==
    \A i \in OkCalls :
        LET h == history[i] IN
        \A o \in DeliveryOrders(h.delivered) :
            LET agg == ReplayLoop(h.delivered, o, Len(o)) IN
            /\ agg.total_files = h.result.total_files
            /\ agg.total_dirs = h.result.total_dirs
            /\ total_size_of(agg.dir_sizes) = h.result.total_size
            /\ SizesAndFiles(agg.dir_sizes) = SizesAndFiles(h.buckets)

(***************************************************************************)
(* Hard links: where a physical file lands.                                *)
(***************************************************************************)
\* the positions of the delivered regular files with identity key key
PathsTo(items, key) ==
    {k \in FileItems(items) : get_inode_key(items[k].dent.ino) = key}

\* those whose metadata could be read
ReadablePathsTo(items, key) ==
    {k \in PathsTo(items, key) : items[k].dent.meta_ok}

\* the least element of a non-empty set of positions
First(S) == CHOOSE k \in S : \A j \in S : k <= j

BucketOfItem(items, k) == find_immediate_subdir(items[k].dent.path, Root)

\* the counted keys whose first visited path belongs to bucket b
LandedByFirstVisited(items, seen, b) ==
    {key \in seen : BucketOfItem(items, First(PathsTo(items, key))) = b}

\* the counted keys whose first readable path belongs to bucket b
LandedByFirstReadable(items, seen, b) ==
    {key \in seen : BucketOfItem(items, First(ReadablePathsTo(items, key))) = b}

\* the buckets of all delivered regular files
FileBuckets(items) == {BucketOfItem(items, k) : k \in FileItems(items)}

\* the next iteration meets a readable path to a key that is already counted
NextIsCountedFile ==
    /\ pc = "walking"
    /\ NextItem.item.tag = "ok"
    /\ NextItem.item.dent.ftype = "file"
    /\ NextItem.item.dent.meta_ok
    /\ get_inode_key(NextItem.item.dent.ino) \in seen_inodes

(***************************************************************************)
(* C12, as claimed: a counted physical file lands, with its disk usage and *)
(* its file count, in the bucket of the first of its paths the traversal   *)
(* encounters: every bucket holds exactly the counted files whose first    *)
(* visited path belongs to it.                                             *)
(***************************************************************************)
C12_AsClaimed ==
    \A b \in (DOMAIN dir_sizes) \cup FileBuckets(delivered) :
        LET here == LandedByFirstVisited(delivered, seen_inodes, b) IN
        /\ EntryOrDefault(dir_sizes, b).file_count = Cardinality(here)
        /\ EntryOrDefault(dir_sizes, b).size = SumUsage(here)

(***************************************************************************)
(* C12, amended: a physical file with hard links in two directories lands, *)
(* with its disk usage and its file count, exactly once, in the bucket of  *)
(* the first of its paths whose metadata the traversal could read (a path  *)
(* met earlier whose metadata cannot be read counts as an error and does   *)
(* not claim the file); every later readable path to the same identity key *)
(* is skipped without error and leaves all buckets, total_files,           *)
(* total_dirs and the identity set unchanged.                              *)
(***************************************************************************)
C12_LandsAtFirstReadablePath ==
    /\ [](/\ seen_inodes = ReadKeys(delivered)
          /\ \A b \in (DOMAIN dir_sizes) \cup FileBuckets(delivered) :
                LET here == LandedByFirstReadable(delivered, seen_inodes, b) IN
                /\ EntryOrDefault(dir_sizes, b).file_count = Cardinality(here)
                /\ EntryOrDefault(dir_sizes, b).size = SumUsage(here))
    /\ [][NextIsCountedFile =>
            /\ dir_sizes' = dir_sizes
            /\ total_files' = total_files
            /\ total_dirs' = total_dirs
            /\ seen_inodes' = seen_inodes
            /\ error_count' = error_count
            /\ delivered' = Append(delivered, NextItem.item)]_vars

\* the walk met one physical file of non-zero size through readable paths in
\* two directories; it is counted in the first one's bucket and not in the other's
C12_Witness ==
    \E j, k \in FileItems(delivered) :
        /\ j < k
        /\ delivered[j].dent.ino = delivered[k].dent.ino
        /\ delivered[j].dent.meta_ok /\ delivered[k].dent.meta_ok
        /\ BucketOfItem(delivered, j) # BucketOfItem(delivered, k)
        /\ dir_sizes[BucketOfItem(delivered, j)].file_count = 1
        /\ dir_sizes[BucketOfItem(delivered, j)].size = 512
        /\ dir_sizes[BucketOfItem(delivered, k)].file_count = 0
        /\ total_files = 1

(***************************************************************************)
(* Directories.                                                            *)
(***************************************************************************)
\* the positions of the delivered directory entries strictly beneath the root
\* (the root itself is always the first item delivered)
DirItemsBeneath(items) ==
    {k \in OkItems(items) :
        items[k].dent.ftype = "dir" /\ items[k].dent.path # Root}

\* those owned by bucket b
DirItemsOf(items, b) ==
    {k \in DirItemsBeneath(items) : BucketOfItem(items, k) = b}

DirBuckets(items) == {BucketOfItem(items, k) : k \in DirItemsBeneath(items)}

\* the next iteration of the loop receives a directory entry
NextIsDir ==
    /\ pc = "walking"
    /\ NextItem.item.tag = "ok"
    /\ NextItem.item.dent.ftype = "dir"

(***************************************************************************)
(* C13: the root directory is never counted.  total_dirs is the number of  *)
(* directory entries strictly beneath the root that the walker delivered,  *)
(* each of them adds exactly one to the dir_count of its owning bucket, so *)
(* total_dirs is the sum of dir_count over all buckets; and a directory    *)
(* entry never changes a size, a file count or the identity set.           *)
(***************************************************************************)
C13_RootNeverCounted ==
    /\ [](/\ total_dirs = Cardinality(DirItemsBeneath(delivered))
          /\ total_dirs = SumField(dir_sizes, DOMAIN dir_sizes, "dir_count")
          /\ Root \notin DOMAIN dir_sizes
          /\ \A b \in (DOMAIN dir_sizes) \cup DirBuckets(delivered) :
                EntryOrDefault(dir_sizes, b).dir_count =
                    Cardinality(DirItemsOf(delivered, b))
          /\ \A i \in OkCalls :
                history[i].result.total_dirs =
                    Cardinality(DirItemsBeneath(history[i].delivered)))
    /\ [][NextIsDir =>
            /\ seen_inodes' = seen_inodes
            /\ total_files' = total_files
            /\ error_count' = error_count
            /\ total_dirs' =
                 total_dirs + (IF NextItem.item.dent.path = Root THEN 0 ELSE 1)
            /\ \A b \in DOMAIN dir_sizes' :
                  /\ dir_sizes'[b].size = EntryOrDefault(dir_sizes, b).size
                  /\ dir_sizes'[b].file_count =
                        EntryOrDefault(dir_sizes, b).file_count]_vars

\* a returned walk that received the root, a directory under it and a
\* directory nested in that one: two directories in one bucket, none for the root
C13_Witness ==
    \E i \in OkCalls :
        LET h == history[i] IN
        /\ Len(h.delivered) > 0
        /\ h.delivered[1].tag = "ok"
        /\ h.delivered[1].dent.path = Root
        /\ h.delivered[1].dent.ftype = "dir"
        /\ \E b \in DOMAIN h.buckets :
              /\ h.buckets[b].dir_count = 2
              /\ h.buckets[b].file_count > 0
        /\ h.result.total_dirs = 3
        /\ Cardinality({k \in OkItems(h.delivered) :
                           h.delivered[k].dent.ftype = "dir"}) = 4

(***************************************************************************)
(* Precondition errors.                                                    *)
(***************************************************************************)
\* the global thread pool exists when call i starts: an earlier call on a
\* directory configured it, or used it for the parallel collect
PoolInitializedBefore(i) ==
    \E j \in 1..(i - 1) :
        /\ tree.root_kind = "dir"
        /\ history[j].config.num_threads # None \/ history[j].result.ok

BadPatterns(cfg) ==
    {k \in 1..Len(cfg.exclude_patterns) : ~PatternValid(cfg.exclude_patterns[k])}

\* call i meets one of the four precondition errors
PreconditionFails(i) ==
    \/ tree.root_kind = "missing"
    \/ tree.root_kind = "file"
    \/ history[i].config.num_threads # None /\ PoolInitializedBefore(i)
    \/ BadPatterns(history[i].config) # {}

\* the error of call i says what its first failing precondition is
ErrorNamesCause(i) ==
    LET h == history[i]
        err == h.result.err
    IN IF tree.root_kind = "missing" THEN err = <<"Path does not exist", Root>>
       ELSE IF tree.root_kind = "file" THEN err = <<"Path is not a directory", Root>>
       ELSE IF h.config.num_threads # None /\ PoolInitializedBefore(i)
       THEN err = <<"Failed to configure thread pool">>
       ELSE /\ Len(err) = 2
            /\ err[1] = "Invalid glob pattern"
            /\ \E k \in BadPatterns(h.config) : err[2] = h.config.exclude_patterns[k]

\* a step in which a call returned without entering the loop
ReturnsAtOnce == pc = "idle" /\ pc' = "idle" /\ Len(history') = Len(history) + 1

(***************************************************************************)
(* C14: every precondition error (the root path does not exist, it is not  *)
(* a directory, the thread pool cannot be configured, an exclude pattern   *)
(* is malformed) makes the call return Err before any entry is visited: a  *)
(* call returns Err exactly when a precondition fails, it then returns in  *)
(* the step it was made in, with no item delivered and no bucket, total,   *)
(* error count or identity-set member created, and the loop only ever runs *)
(* on a directory with well-formed patterns; for a malformed pattern the   *)
(* error names the offending pattern.                                      *)
(***************************************************************************)
C14_PreconditionErrorsFailFast ==
    /\ [](/\ \A i \in Calls :
                LET h == history[i] IN
                /\ ~h.result.ok <=> PreconditionFails(i)
                /\ ~h.result.ok =>
                      /\ ErrorNamesCause(i)
                      /\ h.delivered = <<>>
                      /\ h.buckets = EmptyMap
                      /\ h.seen_inodes = {}
                      /\ h.error_count = 0
          /\ pc = "walking" =>
                /\ tree.root_kind = "dir"
                /\ BadPatterns(config) = {})
    /\ [][ReturnsAtOnce =>
            /\ ~history'[Len(history')].result.ok
            /\ dir_sizes' = EmptyMap
            /\ total_files' = 0
            /\ total_dirs' = 0
            /\ seen_inodes' = {}
            /\ delivered' = <<>>
            /\ walker' = NewWalker]_vars

\* a call on a directory failed because its second pattern is malformed,
\* which the error names, and nothing was delivered or counted
C14_Witness ==
    /\ tree.root_kind = "dir"
    /\ tree.dirs["d_root"] # <<>>
    /\ \E i \in Calls :
          /\ ~history[i].result.ok
          /\ history[i].config.exclude_patterns = <<"a", "[">>
          /\ history[i].result.err = <<"Invalid glob pattern", "[">>
          /\ history[i].delivered = <<>>

\* a call failed because the thread pool was already configured, although
\* its pattern is malformed as well: the pool is configured first
C14_WitnessThreadPool ==
    \E i \in Calls :
        /\ history[i].config.num_threads # None
        /\ history[i].config.exclude_patterns = <<"[">>
        /\ ~history[i].result.ok
        /\ history[i].result.err = <<"Failed to configure thread pool">>

\* a call on a path that does not exist failed although its patterns are fine
C14_WitnessMissingRoot ==
    \E i \in Calls :
        /\ tree.root_kind = "missing"
        /\ history[i].result.err = <<"Path does not exist", Root>>
        /\ history[i].delivered = <<>>

====
